---- MODULE Spec2Model ----
(***************************************************************************)
(* dynorm (src/index.js): the entity lifecycle engine (NewModel.save,      *)
(* NewModel.update, NewModel.del, NewModel.get) over a DynamoDB-like store *)
(* with conditional writes, and the recursive pagination engine            *)
(* (Model.find).                                                           *)
(*                                                                         *)
(* One JavaScript turn (the code between two awaits) is one atomic step;   *)
(* every store operation takes effect atomically at the store.             *)
(***************************************************************************)
EXTENDS Integers, Sequences, FiniteSets, TLC

\* ------------------------------------------------------------------------
\* Bounds of the model
\* ------------------------------------------------------------------------
\* caller operations on the instances (assign, save, del) per run
MaxOps == 3
\* calls of NewModel.update per run
MaxUpdates == 2
\* number of times the clock advances
MaxTicks == 1
\* first reading of the clock (Date.now() is an epoch-millisecond count, far
\* from any version counter)
Epoch == 7
\* items passed to one call of populate
MaxPopItems == 3
\* items of the table the pagination engine reads
MaxItems == 4
\* largest number of items the store puts into one page
MaxPage == 2
\* the bulk engine's inputs have up to MaxChunks full chunks and one entry
MaxChunks == 2
\* responses with unprocessed entries the store gives to one chunk
MaxRetries == 1
\* calls of new Schema(id) per run
MaxCompiles == 3

\* ------------------------------------------------------------------------
\* JavaScript values. Every value has the same shape, so that any two can be
\* compared: t is the type tag, n the number, s the string.
\* ------------------------------------------------------------------------
Undef == [t |-> "undefined", n |-> 0, s |-> ""]
Null == [t |-> "null", n |-> 0, s |-> ""]
NaN == [t |-> "NaN", n |-> 0, s |-> ""]
Num(n) == [t |-> "number", n |-> n, s |-> ""]
Str(s) == [t |-> "string", n |-> 0, s |-> s]
\* a Date object holding epoch milliseconds n
DateOf(n) == [t |-> "Date", n |-> n, s |-> ""]
\* a plain object {id: s}: the stub of an unresolved relation
Stub(s) == [t |-> "object", n |-> 0, s |-> s]
\* a Model instance of the referenced entity whose id is s
Ref(s) == [t |-> "Model", n |-> 0, s |-> s]

\* JavaScript truthiness, as used by if (x) and !x
Truthy(v) ==
  /\ v.t \notin {"undefined", "null", "NaN"}
  /\ ~(v.t = "number" /\ v.n = 0)
  /\ ~(v.t = "string" /\ v.s = "")

\* ------------------------------------------------------------------------
\* The schema of the modelled entity. Properties: id (hashKey), rk (rangeKey,
\* when the schema has one), email (hash key of the unique index), ver (the
\* version property, when the schema has one), createdAt and updatedAt
\* (format date-time), org (a relation, join {orgId: "id"}).
\* A schema is [range, timestamps, verType, relation]: whether it has the
\* range key, whether timestamps are on, the type of the version property
\* ("none": no version property, "number": a type save() does not support),
\* whether it has the relation property.
\* ------------------------------------------------------------------------
EAttrs == {"id", "rk", "email", "ver", "createdAt", "updatedAt", "org"}
IAttrs == {"id", "rk", "email", "ver", "createdAt", "updatedAt", "orgId"}

Schemas ==
  { [range |-> FALSE, timestamps |-> FALSE, verType |-> "integer", relation |-> FALSE],
    [range |-> FALSE, timestamps |-> TRUE, verType |-> "none", relation |-> FALSE],
    [range |-> TRUE, timestamps |-> FALSE, verType |-> "none", relation |-> FALSE],
    [range |-> FALSE, timestamps |-> FALSE, verType |-> "number", relation |-> TRUE],
    [range |-> FALSE, timestamps |-> FALSE, verType |-> "date-time", relation |-> FALSE] }

\* Schema.properties: the property names of a schema
Props(sch) ==
  {"id", "email", "createdAt", "updatedAt"}
    \cup (IF sch.relation THEN {"org"} ELSE {})
    \cup (IF sch.range THEN {"rk"} ELSE {})
    \cup (IF sch.verType # "none" THEN {"ver"} ELSE {})

\* the properties whose format is date-time or date
IsDateProp(sch, k) ==
  \/ k \in {"createdAt", "updatedAt"}
  \/ (k = "ver" /\ sch.verType = "date-time")

\* Schema.toDynamo: entity data to store item
toDynamo(sch, model) ==
  [k \in IAttrs |->
    IF k = "orgId"
      THEN IF "org" \notin Props(sch) \/ model["org"] = Undef THEN Undef
           ELSE IF model["org"].t \in {"object", "Model"} THEN Str(model["org"].s)
           ELSE Undef
    ELSE IF k \notin Props(sch) THEN Undef
    ELSE IF model[k].t = "Date" THEN Num(model[k].n)
    ELSE model[k]]

\* Schema.toDynamo reads model[k][v] of a relation property that is not
\* undefined: a TypeError when the property holds null
toDynamoThrows(sch, model) == "org" \in Props(sch) /\ model["org"] = Null

\* Schema.parseDynamo: store item to entity data
parseDynamo(sch, item) ==
  [k \in EAttrs |->
    IF k = "org"
      THEN IF "org" \in Props(sch) /\ Truthy(item["orgId"])
             THEN Stub(item["orgId"].s) ELSE Undef
    ELSE IF k \notin Props(sch) THEN Undef
    ELSE IF item[k] = Undef THEN Undef
    ELSE IF IsDateProp(sch, k) THEN DateOf(item[k].n)
    ELSE item[k]]

\* ------------------------------------------------------------------------
\* The store: one table, a set of items with distinct primary keys, and the
\* table of the referenced entity, which holds the ids in Orgs.
\* ------------------------------------------------------------------------
Ids == {"u1", "u2"}
Rks == {"r1", "r2"}
Emails == {"a@x", "b@x"}
Orgs == {"o1"}
OrgIds == {"o1", "o2"}

\* the item no row holds: what a lookup of a missing key gives
AbsentItem == [k \in IAttrs |-> Undef]

\* the primary key of an item or of entity data
KeyOf(sch, r) == [id |-> r["id"], rk |-> IF sch.range THEN r["rk"] ELSE Undef]

\* DocumentClient.get: the row under a key, AbsentItem when there is none
Lookup(sch, st, key) ==
  IF \E it \in st : KeyOf(sch, it) = key
    THEN CHOOSE it \in st : KeyOf(sch, it) = key
    ELSE AbsentItem

\* A ConditionExpression is the sequence of its tokens, built as save()
\* builds the string: a guard is "ver_eq" (#ver = :ver), "nx_hash"
\* (attribute_not_exists(#hashKey)) or "nx_range"; "AND" is the connective.
Guards == {"ver_eq", "nx_hash", "nx_range"}

\* params.ConditionExpression = (params.ConditionExpression) ? ' AND ' : ''
\* followed by += guard
AppendGuard(cond, g) == (IF cond # <<>> THEN <<"AND">> ELSE <<>>) \o <<g>>

\* what the store's expression parser accepts: guard (AND guard)*
WellFormed(cond) ==
  /\ Len(cond) % 2 = 1
  /\ \A i \in 1..Len(cond) :
       IF i % 2 = 1 THEN cond[i] \in Guards ELSE cond[i] = "AND"

\* one guard evaluated on the row now stored under the item's key
GuardHolds(g, old, expected) ==
  CASE g = "ver_eq" -> old["ver"] = expected
    [] g = "nx_hash" -> old["id"] = Undef
    [] g = "nx_range" -> old["rk"] = Undef
    [] OTHER -> FALSE

\* DocumentClient.put: the outcome of a put request on store st
PutOutcome(sch, st, req) ==
  LET old == Lookup(sch, st, KeyOf(sch, req.item)) IN
  IF req.cond = <<>> THEN "ok"
  ELSE IF ~WellFormed(req.cond) THEN "ValidationException"
  ELSE IF \A i \in 1..Len(req.cond) :
            req.cond[i] = "AND" \/ GuardHolds(req.cond[i], old, req.expected)
    THEN "ok"
  ELSE "ConditionalCheckFailed"

\* the store after an accepted put: the item replaces the row under its key
PutItem(sch, st, item) ==
  {it \in st : KeyOf(sch, it) # KeyOf(sch, item)} \cup {item}

\* a query that looks the index up with the entity's hash key instead of its
\* index value: it never counts the row that holds the same email
QueryCountByHashKey(sch, st, data, isNew) ==
  Cardinality({it \in st :
    /\ it["email"] = data["id"]
    /\ \/ isNew
       \/ /\ it["id"] # data["id"]
          /\ (sch.range => it["rk"] # data["rk"])})

\* DocumentClient.query on the unique index (hash key email), with the
\* FilterExpression save() adds for an entity that is not new: Count
QueryCount(sch, st, data, isNew) ==
  Cardinality({it \in st :
    /\ it["email"] = data["email"]
    /\ \/ isNew
       \/ /\ it["id"] # data["id"]
          /\ (sch.range => it["rk"] # data["rk"])})

\* ------------------------------------------------------------------------
\* State
\* ------------------------------------------------------------------------
VARIABLES
  schema,   \* the compiled schema of the entity type (fixed after Init)
  store,    \* the table: a set of items
  inst,     \* the in-memory entity instances
  upd,      \* the last NewModel.update call: its request and its outcome
  now,      \* the clock: what Date.now() and new Date() read
  ops,      \* caller operations so far
  fparams,  \* Model.find: params (Limit, ExclusiveStartKey)
  facc,     \* Model.find: the accumulator acc
  fpc,      \* Model.find: where the pagination run is
  fdata,    \* Model.find: the table that is read, a sequence of item keys
  ffirst,   \* Model.find: the accumulator the first find returned
  fcall,    \* Model.find: what the caller passed (opts, Limit of each find)
  bcall,    \* bulk engine: the call (operation, per-table input, call number)
  brun,     \* bulk engine: the loop over the chunks and the request in flight
  btable,   \* bulk engine: the rows of the tables the batch writes go to
  bfirst,   \* bulk engine: the rows the first of two successive calls left
  pop,      \* NewModel.populate: the call, its outcome and the items it leaves
  rt,       \* a record taken through Schema.parseDynamo and Schema.toDynamo
  sdoc,     \* dynorm.schema: the shared schema document
  sdoc0,    \* the document as the caller handed it to dynorm.schema
  compiled, \* per definition: the document its validator was compiled from
  ncomp     \* calls of new Schema(id) so far

entityVars == <<schema, store, inst, upd, now, ops>>
findVars == <<fparams, facc, fpc, fdata, ffirst, fcall>>
batchVars == <<bcall, brun, btable, bfirst>>
compileVars == <<sdoc, sdoc0, compiled, ncomp>>
callVars == <<pop, rt, compileVars>>
vars ==
  <<schema, store, inst, upd, now, ops, fparams, facc, fpc, fdata, ffirst, fcall,
    bcall, brun, btable, bfirst, pop, rt, sdoc, sdoc0, compiled, ncomp>>

\* the in-memory instances the callers hold, named in the order in which
\* they are created
Inst == {"e1", "e2"}
Earlier(e) == IF e = "e2" THEN {"e1"} ELSE {}

NoData == [k \in EAttrs |-> Undef]

\* a put request that was never issued
NoReq == [issued |-> FALSE, cond |-> <<>>, expected |-> Undef, item |-> AbsentItem]

\* an instance slot before its constructor has run. wrote: the item the
\* save() before the one under way has put, AbsentItem when there was none
\* or it threw
NoInst ==
  [pc |-> "none", isNew |-> FALSE, data |-> NoData, orig |-> NoData,
   saves |-> 0, count |-> 0, result |-> "", trace |-> <<>>, req |-> NoReq,
   wrote |-> AbsentItem]

\* ------------------------------------------------------------------------
\* NewModel.save, step by step
\* ------------------------------------------------------------------------
\* save(), "Validate relations": a relation that holds a plain value is
\* fetched with RefModel.get, which gives null when no such row exists
ResolveRelations(sch, data) ==
  IF "org" \in Props(sch) /\ Truthy(data["org"]) /\ data["org"].t # "Model"
    THEN [data EXCEPT !["org"] = IF data["org"].s \in Orgs
                                   THEN Ref(data["org"].s) ELSE Null]
    ELSE data

\* timestamps that keep createdAt and advance updatedAt on every save
SaveTimestampsAdvancing(sch, isNew, data, orig, t) ==
  IF ~sch.timestamps THEN data
  ELSE IF isNew
    THEN [data EXCEPT !["createdAt"] = DateOf(t), !["updatedAt"] = DateOf(t)]
  ELSE [data EXCEPT !["createdAt"] = orig["createdAt"],
                    !["updatedAt"] = DateOf(t)]

\* save(), timestamps: now on a new entity, the snapshot's otherwise
SaveTimestamps(sch, isNew, data, orig, t) ==
  IF ~sch.timestamps THEN data
  ELSE IF isNew
    THEN [data EXCEPT !["createdAt"] = DateOf(t), !["updatedAt"] = DateOf(t)]
  ELSE [data EXCEPT !["createdAt"] = orig["createdAt"],
                    !["updatedAt"] = orig["updatedAt"]]

\* params.Item[ver]++
Increment(v) == IF v.t = "number" THEN Num(v.n + 1) ELSE NaN

\* save(), "If schema has version property, set new version": the request
\* with its version guard and the new version, or the error thrown
SaveVersion(sch, orig, item, t) ==
  LET req0 == [issued |-> TRUE, cond |-> <<>>, expected |-> Undef, item |-> item] IN
  IF sch.verType = "none" THEN [err |-> "", req |-> req0]
  ELSE IF Truthy(orig["ver"])
    THEN IF sch.verType = "integer"
           THEN [err |-> "",
                 req |-> [req0 EXCEPT !.cond = AppendGuard(<<>>, "ver_eq"),
                                      !.expected = orig["ver"],
                                      !.item["ver"] = Increment(item["ver"])]]
         ELSE IF sch.verType = "date-time"
           THEN IF orig["ver"].t = "Date"
                  THEN [err |-> "",
                        req |-> [req0 EXCEPT !.cond = AppendGuard(<<>>, "ver_eq"),
                                             !.expected = Num(orig["ver"].n),
                                             !.item["ver"] = Num(t)]]
                  ELSE [err |-> "TypeError", req |-> NoReq]
         ELSE [err |-> "UnsupportedVersionType", req |-> NoReq]
  ELSE IF item["ver"] = Undef
    THEN IF sch.verType = "integer"
           THEN [err |-> "", req |-> [req0 EXCEPT !.item["ver"] = Num(1)]]
         ELSE IF sch.verType = "date-time"
           THEN [err |-> "", req |-> [req0 EXCEPT !.item["ver"] = Num(t)]]
         ELSE [err |-> "UnsupportedVersionType", req |-> NoReq]
  ELSE [err |-> "", req |-> req0]

\* save(), the primary-key guards of a new entity
SaveKeyGuards(sch, isNew, cond) ==
  IF ~isNew THEN cond
  ELSE IF sch.range
    THEN AppendGuard(AppendGuard(cond, "nx_hash"), "nx_range")
  ELSE AppendGuard(cond, "nx_hash")

\* ------------------------------------------------------------------------
\* Actions of the entity lifecycle engine
\* ------------------------------------------------------------------------
\* new NewModel(data): isNew defaults to true, #orig is a copy of the data
Construct(e, id, rk, email, ver) ==
  /\ inst[e].pc = "none"
  /\ \A f \in Earlier(e) : inst[f].pc # "none"
  /\ LET data == [NoData EXCEPT !["id"] = Str(id),
                                !["rk"] = IF schema.range THEN Str(rk) ELSE Undef,
                                !["email"] = email,
                                !["ver"] = ver] IN
     inst' = [inst EXCEPT ![e] = [NoInst EXCEPT !.pc = "idle", !.isNew = TRUE,
                                               !.data = data, !.orig = data]]
  /\ UNCHANGED <<schema, store, upd, now, ops, findVars, batchVars, callVars>>

\* NewModel.get(key): null when the row is absent, otherwise
\* new NewModel(schema.parseDynamo(Item), false)
Get(e, key) ==
  /\ inst[e].pc = "none"
  /\ \A f \in Earlier(e) : inst[f].pc # "none"
  /\ LET item == Lookup(schema, store, key) IN
     /\ item # AbsentItem
     /\ inst' = [inst EXCEPT ![e] =
                   [NoInst EXCEPT !.pc = "idle", !.isNew = FALSE,
                                  !.data = parseDynamo(schema, item),
                                  !.orig = parseDynamo(schema, item)]]
  /\ UNCHANGED <<schema, store, upd, now, ops, findVars, batchVars, callVars>>

\* the values a caller assigns to a property (callers leave a date-time
\* version to save())
SetVals(sch, k) ==
  CASE k = "email" -> {Str("b@x"), Undef}
    [] k = "rk" -> IF sch.range THEN {Str("r2")} ELSE {}
    [] k = "ver" -> IF sch.verType = "date-time" THEN {} ELSE {Num(0), Num(2)}
    [] k = "createdAt" -> {DateOf(now)}
    [] k = "updatedAt" -> {DateOf(now)}
    [] k = "org" -> {Stub(o) : o \in OrgIds}
    [] OTHER -> {}

\* the property setter the constructor installs: Reflect.set(this._data, k, value)
Assign(e, k, v) ==
  /\ ops < MaxOps
  /\ inst[e].pc = "idle"
  /\ k \in Props(schema)
  /\ inst[e].data[k] # v
  /\ inst' = [inst EXCEPT ![e].data[k] = v]
  /\ ops' = ops + 1
  /\ UNCHANGED <<schema, store, upd, now, findVars, batchVars, callVars>>

\* a save() that validates before it resolves the relations
CheckResultValidateFirst(before, data, valid) ==
  IF ~valid THEN "ValidationError"
  ELSE IF data["org"] = Null /\ before["org"] # Null THEN "RelationNotFound"
  ELSE IF ~Truthy(data["email"]) THEN "MissingIndexValue"
  ELSE ""

\* save() up to the index query: the error it throws before the query, ""
\* when it reaches the query. before is the data when save() is called, data
\* the data after relation resolution, valid the validator's verdict.
CheckResult(before, data, valid) ==
  IF data["org"] = Null /\ before["org"] # Null THEN "RelationNotFound"
  ELSE IF ~valid THEN "ValidationError"
  ELSE IF ~Truthy(data["email"]) THEN "MissingIndexValue"
  ELSE ""

\* the steps save() has gone through when it throws before the query, or
\* issues the query
CheckTrace(result) ==
  IF result = "RelationNotFound" THEN <<"relations">>
  ELSE IF result = "ValidationError" THEN <<"relations", "validate">>
  ELSE <<"relations", "validate", "unique">>

\* a save() that lets one row with the same index value pass
CountViolatesAboveOne(count) == count > 1

\* if (Count) { throw ... }
CountViolates(count) == count # 0

\* save() from its start to the index query: relation resolution, validation
\* (the validator's verdict is valid), the unique index's key value, and the
\* query as the store answers it
SaveCheck(e, valid) ==
  /\ ops < MaxOps
  /\ inst[e].pc = "idle"
  /\ LET data == ResolveRelations(schema, inst[e].data)
         result == CheckResult(inst[e].data, data, valid) IN
     inst' = [inst EXCEPT ![e] =
       [@ EXCEPT !.data = data, !.req = NoReq, !.saves = @ + 1,
                 !.wrote = IF inst[e].req.issued /\ inst[e].result = "ok"
                             THEN inst[e].req.item ELSE AbsentItem,
                 !.result = result, !.trace = CheckTrace(result),
                 !.pc = IF result = "" THEN "queried" ELSE "idle",
                 !.count = IF result = ""
                             THEN QueryCount(schema, store, data, inst[e].isNew)
                             ELSE 0]]
  /\ ops' = ops + 1
  /\ UNCHANGED <<schema, store, upd, now, findVars, batchVars, callVars>>

\* save() from the answer of the index query to the put, as the store
\* executes it
SavePut(e) ==
  /\ inst[e].pc = "queried"
  /\ LET me == inst[e]
         data == SaveTimestamps(schema, me.isNew, me.data, me.orig, now)
         v == SaveVersion(schema, me.orig, toDynamo(schema, data), now)
         req == [v.req EXCEPT !.cond = SaveKeyGuards(schema, me.isNew, v.req.cond)]
         out == PutOutcome(schema, store, req) IN
     IF CountViolates(me.count)
       THEN /\ inst' = [inst EXCEPT ![e].pc = "idle", ![e].result = "UniqueConstraint"]
            /\ store' = store
     ELSE IF toDynamoThrows(schema, data)
       THEN /\ inst' = [inst EXCEPT ![e].pc = "idle", ![e].result = "TypeError",
                                    ![e].data = data,
                                    ![e].trace = me.trace \o <<"timestamps">>]
            /\ store' = store
     ELSE IF v.err # ""
       THEN /\ inst' = [inst EXCEPT ![e].pc = "idle", ![e].result = v.err,
                                    ![e].data = data,
                                    ![e].trace = me.trace \o <<"timestamps", "version">>]
            /\ store' = store
     ELSE /\ inst' = [inst EXCEPT ![e].pc = "idle", ![e].result = out,
                                  ![e].data = data, ![e].req = req,
                                  ![e].trace = me.trace \o <<"timestamps", "version", "put">>]
          /\ store' = IF out = "ok" THEN PutItem(schema, store, req.item) ELSE store
  /\ UNCHANGED <<schema, upd, now, ops, findVars, batchVars, callVars>>

\* del(): delete by the primary key read from the instance
Del(e) ==
  /\ ops < MaxOps
  /\ inst[e].pc = "idle"
  /\ store' = {it \in store : KeyOf(schema, it) # KeyOf(schema, inst[e].data)}
  /\ ops' = ops + 1
  /\ UNCHANGED <<schema, inst, upd, now, findVars, batchVars, callVars>>

\* the clock advances
Tick ==
  /\ now < Epoch + MaxTicks
  /\ now' = now + 1
  /\ UNCHANGED <<schema, store, inst, upd, ops, findVars, batchVars, callVars>>

\* ------------------------------------------------------------------------
\* NewModel.update(key, update)
\* ------------------------------------------------------------------------
\* an update body: the attributes it names (Undef: not named)
NoBody == [k \in IAttrs |-> Undef]

\* the request update() builds: the attributes its UpdateExpression assigns
\* (sets), whether it carries the ConditionExpression #ver = :verOld, and the
\* value of :verOld
UpdateRequest(sch, key, verb, body, t) ==
  LET hasVer == sch.verType # "none"
      stripped == [k \in IAttrs |->
                     IF hasVer /\ k = "ver" THEN Undef
                     ELSE IF k = "id" THEN Undef
                     ELSE IF k = "rk" /\ sch.range THEN Undef
                     ELSE body[k]] IN
  [key |-> key, verb |-> verb,
   sets |-> IF hasVer THEN [stripped EXCEPT !["ver"] = Num(t)] ELSE stripped,
   conditional |-> hasVer /\ Truthy(body["ver"]),
   expected |-> IF hasVer /\ Truthy(body["ver"]) THEN body["ver"] ELSE Undef]

\* DocumentClient.update: the outcome of the request on store st. The
\* expression update() writes is "<verb> #k = :k, ...": the store's parser
\* accepts that form after SET only, and needs one assignment at least.
UpdateOutcome(sch, st, req) ==
  LET old == Lookup(sch, st, req.key) IN
  IF req.verb # "SET" \/ req.sets = NoBody THEN "ValidationException"
  ELSE IF req.conditional /\ old["ver"] # req.expected THEN "ConditionalCheckFailed"
  ELSE "ok"

\* the row an accepted update leaves under the key (ReturnValues ALL_NEW)
UpdatedItem(sch, st, req) ==
  LET old == Lookup(sch, st, req.key) IN
  [k \in IAttrs |->
     IF k = "id" THEN req.key.id
     ELSE IF k = "rk" THEN req.key.rk
     ELSE IF req.sets[k] # Undef THEN req.sets[k]
     ELSE old[k]]

NoUpd ==
  [called |-> FALSE, body |-> NoBody, old |-> AbsentItem, out |-> "",
   attrs |-> AbsentItem,
   req |-> [key |-> [id |-> Undef, rk |-> Undef], verb |-> "", sets |-> NoBody,
            conditional |-> FALSE, expected |-> Undef]]

\* the update bodies the callers pass
UpdateBodies ==
  {[NoBody EXCEPT !["email"] = m, !["ver"] = v, !["id"] = i] :
     m \in {Undef, Str("b@x")}, v \in {Undef, Num(0), Num(1)}, i \in {Undef, Str("u2")}}

\* const type = ['$SET', '$ADD', '$DELETE'].find(t => update[t]) and the
\* keyword the UpdateExpression starts with
Verbs == {"SET", "ADD", "DELETE"}

Update(id, rk, verb, body) ==
  /\ ops < MaxUpdates
  /\ LET key == [id |-> Str(id), rk |-> IF schema.range THEN Str(rk) ELSE Undef]
         req == UpdateRequest(schema, key, verb, body, now)
         out == UpdateOutcome(schema, store, req)
         new == UpdatedItem(schema, store, req) IN
     /\ upd' = [called |-> TRUE, body |-> body, old |-> Lookup(schema, store, key),
                out |-> out, attrs |-> IF out = "ok" THEN new ELSE AbsentItem,
                req |-> req]
     /\ store' = IF out = "ok" THEN PutItem(schema, store, new) ELSE store
  /\ ops' = ops + 1
  /\ UNCHANGED <<schema, inst, now, findVars, batchVars, callVars>>

\* ------------------------------------------------------------------------
\* Model.find(client, params, opts, acc): the pagination engine. The table is
\* the sequence fdata of item keys 1..M, in key order; an item is its key. A
\* continuation token (LastEvaluatedKey, ExclusiveStartKey) is the key of
\* the last item read, 0 when there is none.
\* ------------------------------------------------------------------------
\* the default of the parameter acc: { Items: [], ScannedCount: 0 }
NewAcc ==
  [Items |-> <<>>, ScannedCount |-> 0, Count |-> Undef, LastEvaluatedKey |-> 0,
   Accumulator |-> Undef]

\* opts: whether filter, map and reduce are given, and initialValue. The
\* filter keeps the items with an odd key, map adds MapShift to an item,
\* reduce takes the item off the accumulator.
NoOpts == [filter |-> FALSE, map |-> FALSE, reduce |-> FALSE, initialValue |-> Undef]

FindOpts ==
  {[filter |-> f, map |-> m, reduce |-> r, initialValue |-> i] :
     f \in BOOLEAN, m \in BOOLEAN, r \in BOOLEAN,
     i \in {Undef, Num(0), Num(1), Num(3)}}

MapShift == 10

\* the items of a sequence that satisfy opts.filter
RECURSIVE FilterOdd(_)
FilterOdd(items) ==
  IF items = <<>> THEN <<>>
  ELSE (IF Head(items) % 2 = 1 THEN <<Head(items)>> ELSE <<>>) \o FilterOdd(Tail(items))

\* data.Items.reduce(opts.reduce, acc.Accumulator), opts.reduce being
\* (a, item) => a - item
RECURSIVE Reduce(_, _)
Reduce(items, a) ==
  IF items = <<>> THEN a
  ELSE Reduce(Tail(items), IF a.t = "number" THEN Num(a.n - Head(items)) ELSE NaN)

\* the checks at the head of find: the error thrown, "" when there is none
FindConfigError(opts) ==
  IF opts.map /\ opts.reduce THEN "Only map or reduce is required"
  ELSE IF opts.reduce /\ ~Truthy(opts.initialValue) THEN "Reduce initialValue is required"
  ELSE ""

\* client.query / client.scan: the page of k items after ExclusiveStartKey
PageItems(data, start, k) == SubSeq(data, start + 1, start + k)

\* how many items the store may put into one page: what is left of the
\* table, at most Limit when Limit is given, at most MaxPage
PageSizes(data, params) ==
  LET left == Len(data) - params.ExclusiveStartKey
      cap == IF Truthy(params.Limit) /\ params.Limit.n < MaxPage
               THEN params.Limit.n ELSE MaxPage
      most == IF left < cap THEN left ELSE cap IN
  IF most = 0 THEN {0} ELSE 1..most

\* a find that does not take the items it has read off the Limit
NextLimitKept(limit, n) == limit

\* if (params.Limit) { params.Limit -= data.Items.length; }
NextLimit(limit, n) == IF Truthy(limit) THEN Num(limit.n - n) ELSE limit

\* one invocation of find, from the page the store returns (items, lek) to
\* the decision to recurse: the accumulator and the params it leaves
FindStep(opts, params, acc, items, lek) ==
  LET seeded == IF opts.reduce /\ ~Truthy(acc.Accumulator)
                  THEN [acc EXCEPT !.Accumulator = opts.initialValue] ELSE acc
      filtered == IF opts.filter THEN FilterOdd(items) ELSE items
      mapped == IF opts.map
                  THEN [i \in 1..Len(filtered) |-> filtered[i] + MapShift]
                  ELSE filtered
      counted == [seeded EXCEPT !.ScannedCount = @ + Len(items)]
      acc1 == IF opts.reduce
                THEN [counted EXCEPT !.Accumulator = Reduce(mapped, @)]
                ELSE [counted EXCEPT !.Items = @ \o mapped,
                                     !.Count = Num(Len(counted.Items) + Len(mapped))]
      limit == NextLimit(params.Limit, Len(mapped))
      again == lek # 0 /\ (limit = Undef \/ (limit.t = "number" /\ limit.n > 0)) IN
  [again |-> again,
   params |-> [Limit |-> limit,
               ExclusiveStartKey |-> IF again THEN lek ELSE params.ExclusiveStartKey],
   acc |-> IF lek # 0 /\ ~again THEN [acc1 EXCEPT !.LastEvaluatedKey = lek] ELSE acc1]

\* the caller calls find on a table of m items with a Limit and opts
FindStart(m, limit, opts) ==
  /\ fpc = "off"
  /\ fdata' = [i \in 1..m |-> i]
  /\ fcall' = [opts |-> opts, limit |-> limit, limit2 |-> Undef]
  /\ fparams' = [Limit |-> limit, ExclusiveStartKey |-> 0]
  /\ facc' = NewAcc
  /\ fpc' = IF FindConfigError(opts) # "" THEN "error" ELSE "run1"
  /\ UNCHANGED <<ffirst, entityVars, batchVars, callVars>>

\* one invocation of find: the store returns a page of k items, with a
\* LastEvaluatedKey when items are left after it (and, when tokenAtEnd, also
\* when the page ends the table exactly at Limit)
FindPage(k, tokenAtEnd) ==
  /\ fpc \in {"run1", "run2"}
  /\ k \in PageSizes(fdata, fparams)
  /\ LET last == fparams.ExclusiveStartKey + k
         more == last < Len(fdata)
                   \/ (tokenAtEnd /\ k > 0 /\ fparams.Limit = Num(k))
         step == FindStep(fcall.opts, fparams, facc,
                          PageItems(fdata, fparams.ExclusiveStartKey, k),
                          IF more THEN last ELSE 0) IN
     /\ facc' = step.acc
     /\ fparams' = step.params
     /\ fpc' = IF step.again THEN fpc
               ELSE IF fpc = "run1" THEN "done1" ELSE "done2"
  /\ UNCHANGED <<fdata, ffirst, fcall, entityVars, batchVars, callVars>>

\* the caller resumes: a second find from the token the first one left on
\* its accumulator, with a fresh Limit and a fresh accumulator
FindResume(limit) ==
  /\ fpc = "done1"
  /\ facc.LastEvaluatedKey # 0
  /\ ffirst' = facc
  /\ fcall' = [fcall EXCEPT !.limit2 = limit]
  /\ fparams' = [Limit |-> limit, ExclusiveStartKey |-> facc.LastEvaluatedKey]
  /\ facc' = NewAcc
  /\ fpc' = "run2"
  /\ UNCHANGED <<fdata, entityVars, batchVars, callVars>>

\* the Limit values the callers pass: none, or 1..MaxItems
Limits == {Undef} \cup {Num(n) : n \in 1..MaxItems}

NextFind ==
  \/ \E m \in 1..MaxItems, limit \in Limits, opts \in FindOpts : FindStart(m, limit, opts)
  \/ \E k \in 0..MaxPage, tokenAtEnd \in BOOLEAN : FindPage(k, tokenAtEnd)
  \/ \E limit \in Limits : FindResume(limit)

\* ------------------------------------------------------------------------
\* The bulk engine: Model.batchWrite, Model.batchWritePuts,
\* Model.batchWriteDeletes, Model.batchGet, Model.batchGetKeys. The input is
\* a per-table collection; an entry of a collection is a number i that
\* stands for an item (batchWritePuts) or a key (batchWriteDeletes,
\* batchGetKeys).
\* ------------------------------------------------------------------------
Tables == {"t1", "t2"}

\* items.slice(i, i + 25) of batchWritePuts and batchWriteDeletes
WriteChunk == 25
\* keys.slice(i, i + 100) of batchGetKeys
GetChunk == 100

BatchOps == {"puts", "deletes", "getKeys"}

ChunkSize(op) == IF op = "getKeys" THEN GetChunk ELSE WriteChunk

\* a per-table collection with no entries
NoEntries == [tn \in Tables |-> <<>>]

\* the key of the row item i is written to: the items of one chunk have
\* distinct keys, items of different chunks may have the same key
ItemKey(i) == ((i - 1) % WriteChunk) + 1

\* the table row a put of item i writes
Row(tn, i) == [tn |-> tn, key |-> ItemKey(i), val |-> i]

\* the rows of the tables before a call: none, or one row under the keys
\* 1 and 2 of t1
InitTables == {{}, {[tn |-> "t1", key |-> 1, val |-> 0], [tn |-> "t1", key |-> 2, val |-> 0]}}

\* the referenced table batchGetKeys reads has no record under every third key
HasRecord(i) == i % 3 # 0

\* the sizes of the inputs: around the multiples of the chunk size
Sizes(op) ==
  {n \in 0..(MaxChunks * ChunkSize(op) + 1) :
     \E c \in 0..MaxChunks, d \in {-1, 0, 1} : n = c * ChunkSize(op) + d}

\* the caller's input with n entries, the first n1 of them for table t1
Input(n, n1) ==
  [tn \in Tables |->
     IF tn = "t1" THEN [j \in 1..n1 |-> j] ELSE [j \in 1..(n - n1) |-> n1 + j]]

\* Object.keys(tableItems).forEach(tn => tableItems[tn].forEach(i =>
\* items.push({ tn: tn, i: i })))
Flatten(input) ==
  [j \in 1..Len(input["t1"]) |-> [tn |-> "t1", i |-> input["t1"][j]]]
    \o [j \in 1..Len(input["t2"]) |-> [tn |-> "t2", i |-> input["t2"][j]]]

\* a slice that starts one entry late
SliceShifted(items, x, size) ==
  SubSeq(items, x * size + 2,
         IF x * size + 1 + size < Len(items) THEN x * size + 1 + size ELSE Len(items))

\* items.slice(i, i + size), i being x * size
Slice(items, x, size) ==
  SubSeq(items, x * size + 1,
         IF x * size + size < Len(items) THEN x * size + size ELSE Len(items))

\* params.RequestItems of a slice: the entries of each table, in order
RequestItems(slice) ==
  [tn \in Tables |->
     LET OfTable(e) == e.tn = tn
         mine == SelectSeq(slice, OfTable) IN
     [j \in 1..Len(mine) |-> mine[j].i]]

\* for (let x = 0, i = 0; x < len; ...) with len = items.length / size
MoreChunks(items, x, size) == x * size < Len(items)

\* the entries at the even positions of a list
Evens(list) == [j \in 1..(Len(list) \div 2) |-> list[2 * j]]

\* the answers of the store to a request: it leaves nothing unprocessed, or
\* every second entry of each table, or every entry
Patterns == {"none", "evens", "all"}

\* data.UnprocessedItems / data.UnprocessedKeys
Unprocessed(req, p) ==
  [tn \in Tables |->
     IF p = "none" THEN <<>> ELSE IF p = "evens" THEN Evens(req[tn]) ELSE req[tn]]

\* the entries of a request the store has processed
Processed(req, p) ==
  [tn \in Tables |->
     IF p = "none" THEN req[tn]
     ELSE IF p = "evens" THEN [j \in 1..((Len(req[tn]) + 1) \div 2) |-> req[tn][2 * j - 1]]
     ELSE <<>>]

\* the number of entries of a per-table collection
Count(coll) == Len(coll["t1"]) + Len(coll["t2"])

\* the tables after the store has processed the put or delete requests done
Written(op, st, done) ==
  LET hit == {[tn |-> tn, key |-> ItemKey(done[tn][j])] :
                tn \in {"t1"}, j \in 1..Len(done["t1"])}
               \cup {[tn |-> tn, key |-> ItemKey(done[tn][j])] :
                       tn \in {"t2"}, j \in 1..Len(done["t2"])}
      kept == {r \in st : [tn |-> r.tn, key |-> r.key] \notin hit} IN
  IF op = "puts"
    THEN kept \cup {Row("t1", done["t1"][j]) : j \in 1..Len(done["t1"])}
              \cup {Row("t2", done["t2"][j]) : j \in 1..Len(done["t2"])}
    ELSE kept

\* data.Responses: the records under the keys the store has processed
Responses(done) ==
  [tn \in Tables |-> SelectSeq(done[tn], HasRecord)]

\* a merge that keeps the latest response of a table only
MergeLatest(a, res) == [tn \in Tables |-> IF res[tn] # <<>> THEN res[tn] ELSE a[tn]]

\* Object.keys(res).reduce((a, c) => { a[c] = (a[c]) ? a[c].concat(res[c])
\* : res[c]; return a; }, obj)
Merge(a, res) == [tn \in Tables |-> a[tn] \o res[tn]]

\* a retry that sends the whole request again
ResubmitAll(req, unp) == req

\* params.RequestItems = data.UnprocessedItems (data.UnprocessedKeys)
Resubmit(req, unp) == unp

\* a batchWrite that does not look at data.UnprocessedItems
NeverRetries(unp) == FALSE

\* if (Object.keys(data.UnprocessedItems).length)
Retries(unp) == unp # NoEntries

NoCall == [op |-> "none", input |-> NoEntries, calls |-> 0]

\* pc: "off" before the call, "sent" while a request is with the store,
\* "done" when the call has returned. x: the chunk the loop is at; req: the
\* RequestItems of the request in flight; retries: the requests of the chunk
\* that came back with unprocessed entries; initial: the first request of
\* each chunk so far; sent: the requests sent; unp: what the last response
\* left unprocessed; accepted, naccepted: the entries the store has
\* processed; res: obj, the result of batchGetKeys.
NoRun ==
  [pc |-> "off", x |-> 0, req |-> NoEntries, retries |-> 0, initial |-> <<>>,
   sent |-> 0, unp |-> NoEntries, accepted |-> {}, naccepted |-> 0,
   res |-> NoEntries]

\* the loop of batchWritePuts, batchWriteDeletes and batchGetKeys at chunk x:
\* the request of the chunk is sent, or the call returns
AtChunk(op, input, run, x) ==
  LET items == Flatten(input)
      req == RequestItems(Slice(items, x, ChunkSize(op))) IN
  IF MoreChunks(items, x, ChunkSize(op))
    THEN [run EXCEPT !.pc = "sent", !.x = x, !.req = req, !.retries = 0,
                     !.initial = Append(@, req), !.sent = @ + 1,
                     !.unp = NoEntries]
    ELSE [run EXCEPT !.pc = "done", !.x = x, !.req = NoEntries, !.unp = NoEntries]

\* the caller calls batchWritePuts, batchWriteDeletes or batchGetKeys, the
\* tables holding rows (batchGetKeys reads the referenced table of HasRecord,
\* so its calls start on empty tables)
BatchStart(op, n, n1, rows) ==
  /\ brun.pc = "off"
  /\ btable' = rows
  /\ bcall' = [op |-> op, input |-> Input(n, n1), calls |-> 1]
  /\ brun' = AtChunk(op, Input(n, n1), NoRun, 0)
  /\ UNCHANGED <<bfirst, entityVars, findVars, callVars>>

\* Model.batchWrite / Model.batchGet: the store answers the request in
\* flight, leaving the entries of pattern p unprocessed; the unprocessed
\* entries are sent again, or the loop goes on to the next chunk
BatchRespond(p) ==
  /\ brun.pc = "sent"
  /\ brun.retries = MaxRetries => p = "none"
  /\ LET unp == Unprocessed(brun.req, p)
         done == Processed(brun.req, p)
         got == [brun EXCEPT
                   !.unp = unp,
                   !.accepted = @ \cup {[tn |-> "t1", i |-> done["t1"][j]] :
                                          j \in 1..Len(done["t1"])}
                                  \cup {[tn |-> "t2", i |-> done["t2"][j]] :
                                          j \in 1..Len(done["t2"])},
                   !.naccepted = @ + Count(done),
                   !.res = IF bcall.op = "getKeys" THEN Merge(@, Responses(done)) ELSE @] IN
     /\ btable' = IF bcall.op = "getKeys" THEN btable ELSE Written(bcall.op, btable, done)
     /\ brun' = IF Retries(unp)
                  THEN [got EXCEPT !.req = Resubmit(brun.req, unp), !.retries = @ + 1,
                                   !.sent = @ + 1]
                  ELSE AtChunk(bcall.op, bcall.input, got, brun.x + 1)
  /\ UNCHANGED <<bcall, bfirst, entityVars, findVars, callVars>>

\* the caller calls batchWritePuts again, with the same items
BatchAgain ==
  /\ brun.pc = "done"
  /\ bcall.op = "puts"
  /\ bcall.calls = 1
  /\ bcall' = [bcall EXCEPT !.calls = 2]
  /\ bfirst' = btable
  /\ brun' = AtChunk("puts", bcall.input, NoRun, 0)
  /\ UNCHANGED <<btable, entityVars, findVars, callVars>>

NextBatch ==
  \/ \E op \in BatchOps :
       \E rows \in (IF op = "getKeys" THEN {{}} ELSE InitTables), n \in Sizes(op) :
         \E n1 \in {n, n \div 2} : BatchStart(op, n, n1, rows)
  \/ \E p \in Patterns : BatchRespond(p)
  \/ BatchAgain

BatchIdle ==
  /\ bcall = NoCall
  /\ brun = NoRun
  /\ btable = {}
  /\ bfirst = {}

\* ------------------------------------------------------------------------
\* NewModel.populate(client, fields, items) on the schema with the relation
\* org (join {orgId: "id"}). An item is [orgId, org]: its foreign key and
\* what it holds under the field.
\* ------------------------------------------------------------------------
\* the field lists the callers pass: none, the relation, the relation after
\* a name that is no property of the schema
FieldLists == {<<>>, <<"org">>, <<"nope", "org">>}

\* the foreign keys of the items: none, the key of a row of the referenced
\* table, a key no row has
PopItems == [orgId : {Undef} \cup {Str(o) : o \in OrgIds}, org : {Undef}]

\* the lists of items the callers pass
RECURSIVE ItemLists(_)
ItemLists(n) ==
  IF n = 0 THEN {<<>>}
  ELSE ItemLists(n - 1)
         \cup {Append(l, it) : l \in {m \in ItemLists(n - 1) : Len(m) = n - 1},
                               it \in PopItems}

\* the fields of the list that are properties of the schema
KnownFields(fields) ==
  LET IsProp(f) == f \in EAttrs IN SelectSeq(fields, IsProp)

\* tableKeys: the foreign keys of the items, each once, in item order
RECURSIVE TableKeys(_, _)
TableKeys(items, seen) ==
  IF items = <<>> THEN <<>>
  ELSE LET val == Head(items).orgId IN
       IF ~Truthy(val) \/ val \in seen THEN TableKeys(Tail(items), seen)
       ELSE <<val>> \o TableKeys(Tail(items), seen \cup {val})

\* Model.batchGetKeys(client, tableKeys): the records of the referenced
\* table under the keys asked for
FetchedRecords(keys) ==
  LET Exists(k) == k.s \in Orgs IN SelectSeq(keys, Exists)

\* tableItems[tableName].find(i => i[fk] === item[key])
FindRecord(records, val) ==
  IF \E j \in 1..Len(records) : records[j] = val THEN val ELSE Undef

\* the second loop of populate over the items, for one field:
\* parseDynamo(undefined) throws a TypeError when no record was fetched for
\* the item's foreign key, and the items after it are left as they are
RECURSIVE AssignFields(_, _)
AssignFields(items, records) ==
  IF items = <<>> THEN [err |-> "", items |-> <<>>]
  ELSE LET it == Head(items) IN
       IF ~Truthy(it.orgId)
         THEN LET rest == AssignFields(Tail(items), records) IN
              [err |-> rest.err, items |-> <<it>> \o rest.items]
       ELSE IF FindRecord(records, it.orgId) = Undef
         THEN [err |-> "TypeError", items |-> items]
       ELSE LET rest == AssignFields(Tail(items), records) IN
            [err |-> rest.err,
             items |-> <<[it EXCEPT !.org = Ref(it.orgId.s)]>> \o rest.items]

NoPop == [pc |-> "off", fields |-> <<>>, items |-> <<>>, keys |-> <<>>, out |-> <<>>]

\* populate(client, fields, items): pc is "done" when it returns, "error"
\* when it throws; out is what the items hold afterwards
Populate(fields, items) ==
  /\ pop.pc = "off"
  /\ LET known == KnownFields(fields)
         keys == IF known = <<>> THEN <<>> ELSE TableKeys(items, {})
         res == AssignFields(items, FetchedRecords(keys)) IN
     pop' = IF fields = <<>> \/ items = <<>> \/ known = <<>>
              THEN [pc |-> "done", fields |-> fields, items |-> items,
                    keys |-> <<>>, out |-> items]
              ELSE [pc |-> IF res.err = "" THEN "done" ELSE "error",
                    fields |-> fields, items |-> items, keys |-> keys,
                    out |-> res.items]
  /\ UNCHANGED <<rt, compileVars, entityVars, findVars, batchVars>>

NextPopulate ==
  \E fields \in FieldLists, items \in ItemLists(MaxPopItems) : Populate(fields, items)

\* ------------------------------------------------------------------------
\* Schema.parseDynamo followed by Schema.toDynamo. A record is [attrs, rel]:
\* its plain and date attributes, and the join keys of its relation. A join
\* is the list of the relation's pairs [key, fk]: item[key] is model[k][fk].
\* ------------------------------------------------------------------------
JoinKeys == {"orgId", "orgRegion"}
Fks == {"id", "region"}

\* the join of the relation: one pair, or two
Joins ==
  {<<[key |-> "orgId", fk |-> "id"]>>,
   <<[key |-> "orgId", fk |-> "id"], [key |-> "orgRegion", fk |-> "region"]>>}

\* the values of the attributes of the records
AttrVals(sch, k) ==
  IF k \notin Props(sch) \/ k = "org" \/ (k = "rk" /\ ~sch.range) THEN {Undef}
  ELSE IF k = "id" THEN {Str("u1")}
  ELSE IF k = "rk" THEN {Str("r1")}
  ELSE IF k = "email" THEN {Undef, Null, Str("a@x")}
  ELSE IF IsDateProp(sch, k) THEN {Undef, Num(Epoch)}
  ELSE {Undef, Num(0), Num(1)}

\* the records of a schema whose relation has the join
Records(sch, join) ==
  LET keys == {join[j].key : j \in 1..Len(join)}
      attrs == {[AbsentItem EXCEPT !["id"] = Str("u1"), !["rk"] = r, !["email"] = e,
                                   !["ver"] = v, !["createdAt"] = c, !["updatedAt"] = u] :
                  r \in AttrVals(sch, "rk"), e \in AttrVals(sch, "email"),
                  v \in AttrVals(sch, "ver"), c \in AttrVals(sch, "createdAt"),
                  u \in AttrVals(sch, "updatedAt")}
      rels == {[k \in JoinKeys |-> IF k = "orgId" THEN o ELSE g] :
                 o \in (IF sch.relation THEN {Undef, Num(0), Str("o1")} ELSE {Undef}),
                 g \in (IF sch.relation /\ "orgRegion" \in keys
                          THEN {Undef, Str("eu")} ELSE {Undef})} IN
  [attrs : attrs, rel : rels]

\* Schema.parseDynamo on a relation property: the object {fk: item[key]} of
\* the first pair of the join, Undef (no property) when item[key] is falsy
parseRelation(join, rel) ==
  IF ~Truthy(rel[join[1].key]) THEN Undef
  ELSE [t |-> "object",
        at |-> [f \in Fks |-> IF f = join[1].fk THEN rel[join[1].key] ELSE Undef]]

\* Schema.toDynamo on a relation property: item[key] = model[k][fk] for
\* every pair of the join, nothing when model[k] is undefined
toDynamoRelation(join, obj) ==
  [k \in JoinKeys |->
     IF obj = Undef THEN Undef
     ELSE IF \E j \in 1..Len(join) : join[j].key = k
       THEN obj.at[(CHOOSE p \in {join[j] : j \in 1..Len(join)} : p.key = k).fk]
     ELSE Undef]

NoRecord == [attrs |-> AbsentItem, rel |-> [k \in JoinKeys |-> Undef]]

NoRt == [done |-> FALSE, join |-> <<>>, rec |-> NoRecord, back |-> NoRecord]

\* schema.toDynamo(schema.parseDynamo(rec))
RoundTrip(join, rec) ==
  /\ ~rt.done
  /\ rt' = [done |-> TRUE, join |-> join, rec |-> rec,
            back |-> [attrs |-> toDynamo([schema EXCEPT !.relation = FALSE],
                                         parseDynamo([schema EXCEPT !.relation = FALSE],
                                                     rec.attrs)),
                      rel |-> toDynamoRelation(join, parseRelation(join, rec.rel))]]
  /\ UNCHANGED <<pop, compileVars, entityVars, findVars, batchVars>>

NextRoundTrip ==
  \E join \in Joins : \E rec \in Records(schema, join) : RoundTrip(join, rec)

\* ------------------------------------------------------------------------
\* Schema.constructor on the shared schema document dynorm.schema. The
\* document holds the definitions Defs; a definition is [required, props]:
\* its required list and its relation properties r1 and r2, in the order in
\* which for...in visits them. A relation property is [ref, required]: the
\* definition its $ref names and its required marker. Properties without
\* $ref are passed over by the constructor and left out.
\* ------------------------------------------------------------------------
Defs == {"User", "Org"}

RelProps == <<"r1", "r2">>
RelPropNames == {"r1", "r2"}

\* a required list, or none (undefined); a list is truthy even when empty
NoMarker == [set |-> FALSE, list |-> <<>>]
Marker(l) == [set |-> TRUE, list |-> l]

\* a property slot that holds no property (never defined, or deleted)
NoProp == [ref |-> "none", required |-> NoMarker]

\* the relation properties of the documents the callers write
PropVals ==
  {NoProp} \cup [ref : Defs, required : {NoMarker, Marker(<<"name">>)}]

\* the documents the callers hand to dynorm.schema
Documents ==
  [Defs -> [required : {Marker(<<"id">>)}, props : [RelPropNames -> PropVals]]]

\* dynorm.schema before the caller has set it
NoDocument ==
  [d \in Defs |-> [required |-> NoMarker, props |-> [p \in RelPropNames |-> NoProp]]]

\* the body of the loop over schema.properties for the property p of the
\* definition name: a relation with a required marker hands the marker to
\* the referenced definition, loses it, and the referenced definition loses
\* its properties whose $ref is name
CompileProp(doc, name, p) ==
  LET prop == doc[name].props[p] IN
  IF prop.ref = "none" \/ ~prop.required.set THEN doc
  ELSE LET hoisted == [doc EXCEPT ![prop.ref].required = prop.required]
           cleared == [hoisted EXCEPT ![name].props[p].required = NoMarker] IN
       [cleared EXCEPT ![prop.ref].props =
          [q \in RelPropNames |-> IF @[q].ref = name THEN NoProp ELSE @[q]]]

\* for (const propName in schema.properties): the properties in order, one
\* that an earlier pass has deleted being passed over
RECURSIVE CompileProps(_, _, _)
CompileProps(doc, name, names) ==
  IF names = <<>> THEN doc
  ELSE CompileProps(CompileProp(doc, name, Head(names)), name, Tail(names))

\* the shared document after new Schema(id) for the definition name
CompileDoc(doc, name) == CompileProps(doc, name, RelProps)

NoCompiled == [d \in Defs |-> [done |-> FALSE, doc |-> NoDocument]]

\* dynorm.schema = doc
SetSchema(doc) ==
  /\ sdoc = NoDocument
  /\ sdoc' = doc
  /\ sdoc0' = doc
  /\ UNCHANGED <<compiled, ncomp, pop, rt, entityVars, findVars, batchVars>>

\* new Schema(id), id being the $id of the definition name: the loop edits
\* the definitions of the shared document in place (Object.assign copies the
\* top level only), then ajv compiles the validator from the document
Compile(name) ==
  /\ sdoc # NoDocument
  /\ ncomp < MaxCompiles
  /\ sdoc' = CompileDoc(sdoc, name)
  /\ compiled' = [compiled EXCEPT ![name] = [done |-> TRUE, doc |-> CompileDoc(sdoc, name)]]
  /\ ncomp' = ncomp + 1
  /\ UNCHANGED <<sdoc0, pop, rt, entityVars, findVars, batchVars>>

NextCompile ==
  \/ \E doc \in Documents : SetSchema(doc)
  \/ \E name \in Defs : Compile(name)

CompileIdle ==
  /\ sdoc = NoDocument
  /\ sdoc0 = NoDocument
  /\ compiled = NoCompiled
  /\ ncomp = 0

\* ------------------------------------------------------------------------
\* The entity lifecycle engine as a state machine
\* ------------------------------------------------------------------------
\* a row as an earlier successful save() of a new entity left it
SavedRow(sch, id, rk, email) ==
  [AbsentItem EXCEPT !["id"] = Str(id),
                     !["rk"] = IF sch.range THEN Str(rk) ELSE Undef,
                     !["email"] = Str(email),
                     !["ver"] = IF sch.verType = "none" THEN Undef
                                ELSE IF sch.verType = "date-time" THEN Num(Epoch)
                                ELSE Num(1),
                     !["createdAt"] = IF sch.timestamps THEN Num(Epoch) ELSE Undef,
                     !["updatedAt"] = IF sch.timestamps THEN Num(Epoch) ELSE Undef]

\* the version values a caller passes to the constructor
ConstructVers(sch) == IF sch.verType = "integer" THEN {Undef, Num(1)} ELSE {Undef}

\* save() reads the clock for the timestamps and for a date-time version
ReadsClock(sch) == sch.timestamps \/ sch.verType = "date-time"

\* the tables the runs start from: empty, or one row
InitStores(sch) == {{}, {SavedRow(sch, "u1", "r1", "a@x")}}

FindIdle ==
  /\ fparams = [Limit |-> Undef, ExclusiveStartKey |-> 0]
  /\ facc = NewAcc
  /\ fpc = "off"
  /\ fdata = <<>>
  /\ ffirst = NewAcc
  /\ fcall = [opts |-> NoOpts, limit |-> Undef, limit2 |-> Undef]

Init ==
  /\ schema \in Schemas
  /\ store \in InitStores(schema)
  /\ inst = [e \in Inst |-> NoInst]
  /\ upd = NoUpd
  /\ now = Epoch
  /\ ops = 0
  /\ FindIdle
  /\ BatchIdle
  /\ pop = NoPop
  /\ rt = NoRt
  /\ CompileIdle

Next ==
  \/ \E e \in Inst, id \in Ids, rk \in Rks : \E ver \in ConstructVers(schema) :
        Construct(e, id, rk, Str("a@x"), ver)
  \/ \E e \in Inst, id \in Ids, rk \in Rks :
        Get(e, [id |-> Str(id), rk |-> IF schema.range THEN Str(rk) ELSE Undef])
  \/ \E e \in Inst, k \in EAttrs : \E v \in SetVals(schema, k) : Assign(e, k, v)
  \/ \E e \in Inst, valid \in BOOLEAN : SaveCheck(e, valid)
  \/ \E e \in Inst : SavePut(e)
  \/ \E e \in Inst : Del(e)

\* the entity types whose save() never reads the clock
InitEntity == Init /\ ~ReadsClock(schema)

Spec == InitEntity /\ [][Next]_vars

\* the entity types whose save() reads the clock (timestamps, a date-time
\* version), as the clock advances
InitClock == Init /\ ReadsClock(schema)

NextClock ==
  \/ Next
  \/ Tick

SpecClock == InitClock /\ [][NextClock]_vars

\* NewModel.update on its own: calls of update() on the tables, as the
\* clock advances
NextUpdate ==
  \/ \E id \in Ids, rk \in Rks, verb \in Verbs, body \in UpdateBodies :
        Update(id, rk, verb, body)
  \/ Tick

SpecUpdate == Init /\ [][NextUpdate]_vars

\* the pagination engine on its own
InitFind == Init /\ store = {} /\ ~schema.range /\ schema.verType = "integer"

SpecFind == InitFind /\ [][NextFind]_vars

\* the bulk engine on its own
InitBatch == InitFind

SpecBatch == InitBatch /\ [][NextBatch]_vars

\* the bulk engine, every request being answered in the end
SpecBatchFair == SpecBatch /\ WF_vars(\E p \in Patterns : BatchRespond(p))

\* populate on its own, on the schema with the relation
InitPopulate == Init /\ store = {} /\ schema.relation

SpecPopulate == InitPopulate /\ [][NextPopulate]_vars

\* the conversions between records and entity data on their own
InitRoundTrip == Init /\ store = {}

SpecRoundTrip == InitRoundTrip /\ [][NextRoundTrip]_vars

\* the schema compiler on its own
InitCompile == InitFind

SpecCompile == InitCompile /\ [][NextCompile]_vars

\* ------------------------------------------------------------------------
\* Properties of save()
\* ------------------------------------------------------------------------
\* the instances whose constructor has run
Live == {e \in Inst : inst[e].pc # "none"}

\* e was hydrated from a row (isNew = false) and its snapshot holds a
\* non-empty version
HydratedWithVersion(e) ==
  /\ e \in Live
  /\ ~inst[e].isNew
  /\ Truthy(inst[e].orig["ver"])

\* C1: with an integer version, of two copies hydrated from the same row
\* (same key, same non-empty version) that are both saved, the save that
\* comes second fails: never have both succeeded.
C1_SecondSaveFails ==
  \A a \in Inst, b \in Inst :
    ( /\ a # b
      /\ schema.verType = "integer"
      /\ HydratedWithVersion(a) /\ HydratedWithVersion(b)
      /\ inst[a].orig = inst[b].orig
      /\ inst[a].req.issued /\ inst[b].req.issued
      /\ KeyOf(schema, inst[a].req.item) = KeyOf(schema, inst[b].req.item) )
    => ~(inst[a].result = "ok" /\ inst[b].result = "ok")

\* C1, for the copies whose first writer wrote the snapshot's version plus
\* one: the lock holds whenever the version attribute was left alone.
C1_HoldsWhenVersionAdvanced ==
  \A a \in Inst, b \in Inst :
    ( /\ a # b
      /\ schema.verType = "integer"
      /\ HydratedWithVersion(a) /\ HydratedWithVersion(b)
      /\ inst[a].orig = inst[b].orig
      /\ inst[a].req.issued /\ inst[b].req.issued
      /\ KeyOf(schema, inst[a].req.item) = KeyOf(schema, inst[b].req.item)
      /\ inst[a].req.item["ver"] = Increment(inst[a].orig["ver"])
      /\ inst[b].req.item["ver"] = Increment(inst[b].orig["ver"]) )
    => ~(inst[a].result = "ok" /\ inst[b].result = "ok")

\* a row other than e's own holds the value e has for the unique index
DuplicateRow(e) ==
  \E it \in store :
    /\ Truthy(inst[e].data["email"])
    /\ it["email"] = inst[e].data["email"]
    /\ KeyOf(schema, it) # KeyOf(schema, inst[e].data)

\* C2: when a new entity's save() reaches the index query while another row
\* holds the same unique-index value, the query counts that row, and the
\* save then fails with the unique-constraint error, issues no put and
\* leaves the table as it is.
C2_SequentialUnique ==
  [][\A e \in Inst :
       /\ ( /\ inst[e].isNew
            /\ inst[e].pc = "idle" /\ inst'[e].pc = "queried"
            /\ DuplicateRow(e) )
          => inst'[e].count # 0
       /\ ( /\ inst[e].isNew
            /\ inst[e].pc = "queried" /\ inst'[e].pc = "idle"
            /\ inst[e].count # 0 )
          => /\ inst'[e].result = "UniqueConstraint"
             /\ ~inst'[e].req.issued
             /\ store' = store]_vars

\* C2 witness: a new entity was saved, its row is in the table, and the save
\* of another new entity with the same email has failed on the index
C2_Witness ==
  \E a \in Inst, b \in Inst :
    /\ a # b
    /\ inst[a].isNew /\ inst[b].isNew
    /\ inst[a].result = "ok" /\ inst[a].req.item \in store
    /\ inst[b].result = "UniqueConstraint"
    /\ inst[b].data["email"] = inst[a].req.item["email"]
    /\ KeyOf(schema, inst[b].data) # KeyOf(schema, inst[a].req.item)

\* the guards of a ConditionExpression
GuardsOf(cond) == {cond[i] : i \in 1..Len(cond)}

\* C3: the put of a new entity carries the not-exists guard of the hash key,
\* that of the range key when the schema has one, and the version guard
\* when the snapshot holds a version.
C3_NewPutGuards ==
  \A e \in Inst :
    (inst[e].isNew /\ inst[e].req.issued)
    => /\ "nx_hash" \in GuardsOf(inst[e].req.cond)
       /\ (schema.range => "nx_range" \in GuardsOf(inst[e].req.cond))
       /\ (schema.verType # "none" /\ Truthy(inst[e].orig["ver"])
             => "ver_eq" \in GuardsOf(inst[e].req.cond))

\* two new entities with distinct keys and the same unique-index value, both
\* saved, both rows in the table
BothSaved(a, b) ==
  /\ a # b
  /\ inst[a].isNew /\ inst[b].isNew
  /\ inst[a].result = "ok" /\ inst[b].result = "ok"
  /\ inst[a].req.item \in store /\ inst[b].req.item \in store
  /\ KeyOf(schema, inst[a].req.item) # KeyOf(schema, inst[b].req.item)
  /\ inst[a].req.item["email"] = inst[b].req.item["email"]

\* C4: two such rows come only from the race: the index query of each save
\* was answered before the put of the other, so both counted nothing.
C4_RaceOnly ==
  \A a \in Inst, b \in Inst :
    BothSaved(a, b) => (inst[a].count = 0 /\ inst[b].count = 0)

\* C4 witness: the race has happened, the table holds two rows with the same
\* unique-index value
C4_Witness == \E a \in Inst, b \in Inst : BothSaved(a, b)

\* the errors of the steps that come before the put
StepErrors ==
  {"RelationNotFound", "ValidationError", "MissingIndexValue", "UniqueConstraint",
   "UnsupportedVersionType"}

\* the relation of e holds a plain value that no row of the referenced
\* table matches
RelationFails(e) ==
  /\ "org" \in Props(schema)
  /\ inst[e].data["org"].t = "object"
  /\ inst[e].data["org"].s \notin Orgs

AllSteps == <<"relations", "validate", "unique", "timestamps", "version", "put">>

\* C5: a save() that fails at a step before the put issues no put and leaves
\* the table as it is, and the step it fails at is the first that fails:
\* relation resolution before validation and the index, the index before
\* the version-type check; a put is issued only after all the steps.
C5_FirstFailingStep ==
  [][\A e \in Inst :
       LET called == inst'[e].saves = inst[e].saves + 1
           answered == inst[e].pc = "queried" /\ inst'[e].pc = "idle" IN
       (called \/ answered) =>
         /\ inst'[e].result \in StepErrors
              => (~inst'[e].req.issued /\ store' = store)
         /\ inst'[e].req.issued => inst'[e].trace = AllSteps
         /\ (called /\ RelationFails(e))
              => (inst'[e].result = "RelationNotFound" /\ inst'[e].trace = <<"relations">>)
         /\ inst'[e].result = "ValidationError"
              => (~RelationFails(e) /\ inst'[e].trace = <<"relations", "validate">>)
         /\ (called /\ ~RelationFails(e) /\ ~Truthy(inst[e].data["email"]))
              => inst'[e].result \in {"ValidationError", "MissingIndexValue"}
         /\ (answered /\ inst[e].count # 0) => inst'[e].result = "UniqueConstraint"
         /\ inst'[e].result = "UnsupportedVersionType"
              => (answered /\ inst[e].count = 0
                    /\ inst'[e].trace = SubSeq(AllSteps, 1, 5))]_vars

\* C5 witness: a save() of an entity with an unresolvable relation and no
\* index value has failed at relation resolution, and no put was issued
C5_Witness ==
  \E e \in Inst :
    /\ inst[e].result = "RelationNotFound"
    /\ ~Truthy(inst[e].data["email"])
    /\ ~inst[e].req.issued
    /\ inst[e].saves > 0

\* C6: a successful save() of a hydrated entity whose snapshot holds the
\* integer version v is conditioned on the stored version being v and writes
\* the version v + 1, whatever was assigned to the entity.
C6_WritesSnapshotPlusOne ==
  \A e \in Inst :
    ( /\ e \in Live /\ ~inst[e].isNew
      /\ schema.verType = "integer"
      /\ inst[e].orig["ver"].t = "number"
      /\ inst[e].req.issued /\ inst[e].result = "ok" )
    => /\ inst[e].req.cond = <<"ver_eq">>
       /\ inst[e].req.expected = inst[e].orig["ver"]
       /\ inst[e].req.item["ver"] = Num(inst[e].orig["ver"].n + 1)

\* what toDynamo makes of a Date
Millis(v) == IF v.t = "Date" THEN Num(v.n) ELSE v

\* C7: with timestamps on, the put of an entity that is not new carries the
\* snapshot's createdAt and updatedAt, whatever was assigned to them.
C7_TimestampsFromSnapshot ==
  \A e \in Inst :
    (e \in Live /\ ~inst[e].isNew /\ schema.timestamps /\ inst[e].req.issued)
    => /\ inst[e].req.item["createdAt"] = Millis(inst[e].orig["createdAt"])
       /\ inst[e].req.item["updatedAt"] = Millis(inst[e].orig["updatedAt"])

\* C7 witness: a hydrated entity was saved after the clock had advanced, and
\* the row written still carries the snapshot's updatedAt
C7_Witness ==
  \E e \in Inst :
    /\ e \in Live /\ ~inst[e].isNew /\ schema.timestamps
    /\ inst[e].req.issued /\ inst[e].result = "ok"
    /\ inst[e].req.item \in store
    /\ inst[e].req.item["updatedAt"] # Num(now)

\* the last call of update() was a $SET on a schema with a version attribute
\* that the store accepted
UpdateAccepted ==
  /\ upd.called
  /\ upd.req.verb = "SET"
  /\ upd.out = "ok"

\* C8: update(key, {$SET: attrs}) on a schema with an integer version whose
\* stored value is v leaves the stored version at v + 1, and each named
\* attribute that is not a key at its new value.
C8_UpdateAdvancesByOne ==
  ( /\ UpdateAccepted
    /\ schema.verType = "integer"
    /\ upd.old["ver"].t = "number" )
  => /\ upd.attrs["ver"] = Num(upd.old["ver"].n + 1)
     /\ upd.body["email"] # Undef => upd.attrs["email"] = upd.body["email"]

\* the last call of update() named the version attribute in its body, on a
\* schema that has one
ExpectsVersion ==
  /\ upd.called
  /\ schema.verType # "none"
  /\ upd.body["ver"] # Undef

\* C9: an update() whose body names the version attribute with an expected
\* prior value fails and leaves the row as it is when the stored version
\* differs from that value; the expected value is never written as the new
\* version, and key attributes of the body are never written.
C9_ExpectedVersionGuards ==
  ExpectsVersion =>
    /\ (upd.old["ver"].t = "number" /\ upd.old["ver"] # upd.body["ver"])
         => /\ upd.out # "ok"
            /\ Lookup(schema, store, upd.req.key) = upd.old
    /\ upd.out = "ok"
         => /\ upd.attrs["ver"] # upd.body["ver"]
            /\ upd.attrs["id"] = upd.req.key.id
    /\ upd.req.sets["id"] = Undef

\* C9, for the expected values JavaScript takes as true: the update is
\* conditioned on them
C9_HoldsForTruthyExpected ==
  (ExpectsVersion /\ Truthy(upd.body["ver"])) => C9_ExpectedVersionGuards

\* a find with no filter, map or reduce, with Limit N on a table of more
\* than N items
LimitedFind ==
  /\ fcall.opts = NoOpts
  /\ fcall.limit.t = "number"
  /\ fcall.limit.n < Len(fdata)

\* that find, resumed with a fresh Limit that covers the rest of the table
ResumedFind ==
  /\ LimitedFind
  /\ fpc = "done2"
  /\ fcall.limit2.t = "number"
  /\ fcall.limit2.n >= Len(fdata) - fcall.limit.n

\* C10: with no filter, map or reduce, find with Limit N on a table of M > N
\* items returns exactly N items and a continuation token on the
\* accumulator; a second find from that token with a fresh Limit of M - N at
\* least returns exactly the M - N items left: the two results together hold
\* every item once, in order.
C10_PaginationResumes ==
  /\ (LimitedFind /\ fpc = "done1")
       => /\ Len(facc.Items) = fcall.limit.n
          /\ facc.Items = SubSeq(fdata, 1, fcall.limit.n)
          /\ facc.LastEvaluatedKey # 0
  /\ ResumedFind
       => /\ Len(facc.Items) = Len(fdata) - fcall.limit.n
          /\ ffirst.Items \o facc.Items = fdata

\* C10 witness: a find with Limit 2 on 4 items was resumed with Limit 2, and
\* the second result holds the 2 items left
C10_Witness ==
  /\ ResumedFind
  /\ Len(fdata) = MaxItems
  /\ fcall.limit.n > 1
  /\ fcall.limit2.n = Len(fdata) - fcall.limit.n
  /\ Len(facc.Items) > 1

\* a find with opts.reduce has returned
ReducedFind ==
  /\ fpc = "done1"
  /\ fcall.opts.reduce

\* the items find has fetched, after opts.filter
FetchedItems ==
  LET got == SubSeq(fdata, 1, facc.ScannedCount) IN
  IF fcall.opts.filter THEN FilterOdd(got) ELSE got

\* C11: with opts.reduce, the Accumulator find returns is the left fold of
\* reduce over the items of all the pages fetched (after opts.filter), in
\* page order, from opts.initialValue: the seed is used once, whatever value
\* the fold takes between two pages.
C11_FoldSeededOnce ==
  ReducedFind => facc.Accumulator = Reduce(FetchedItems, fcall.opts.initialValue)

\* the fold of reduce over items from a takes no value JavaScript takes as
\* false at the end of a prefix of items
RECURSIVE FoldStaysTruthy(_, _)
FoldStaysTruthy(items, a) ==
  \/ items = <<>>
  \/ /\ Truthy(Reduce(<<Head(items)>>, a))
     /\ FoldStaysTruthy(Tail(items), Reduce(<<Head(items)>>, a))

\* C11, for the folds that never take a false value: the seed is used once
C11_HoldsWhileTruthy ==
  (ReducedFind /\ FoldStaysTruthy(FetchedItems, fcall.opts.initialValue))
    => C11_FoldSeededOnce

\* C12: find fails with a configuration error exactly when opts.map and
\* opts.reduce are both given, or opts.reduce is given without an
\* opts.initialValue; it then fails before any page is asked of the store.
C12_ConfigErrorExactly ==
  fpc # "off" =>
    /\ fpc = "error"
         <=> \/ (fcall.opts.map /\ fcall.opts.reduce)
             \/ (fcall.opts.reduce /\ fcall.opts.initialValue = Undef)
    /\ fpc = "error" => (facc = NewAcc /\ fparams.ExclusiveStartKey = 0)

\* C12, an initialValue being given when JavaScript takes it as true
C12_HoldsForTruthyInitial ==
  fpc # "off" =>
    /\ fpc = "error"
         <=> \/ (fcall.opts.map /\ fcall.opts.reduce)
             \/ (fcall.opts.reduce /\ ~Truthy(fcall.opts.initialValue))
    /\ fpc = "error" => (facc = NewAcc /\ fparams.ExclusiveStartKey = 0)

\* ceil(n / c)
Ceil(n, c) == (n + c - 1) \div c

\* the number of entries of the input of the call
InputCount == Count(bcall.input)

\* the records the table holds under the keys of the input, per table
RecordsOf(tn) == {bcall.input[tn][j] : j \in 1..Len(bcall.input[tn])} \cap
                   {i \in 1..InputCount : HasRecord(i)}

\* C13: batchGetKeys with n keys sends ceil(n / 100) first requests of 100
\* keys at most, asks again for exactly the keys a response leaves
\* unprocessed until none is left, and returns per table every record the
\* store has returned, once.
C13_BatchGetKeysMerges ==
  bcall.op = "getKeys" =>
    /\ \A k \in 1..Len(brun.initial) : Count(brun.initial[k]) <= 100
    /\ (brun.pc = "sent" /\ brun.retries > 0)
         => (brun.req = brun.unp /\ brun.unp # NoEntries)
    /\ brun.pc = "done"
         => /\ Len(brun.initial) = Ceil(InputCount, 100)
            /\ brun.unp = NoEntries
            /\ brun.naccepted = InputCount
            /\ \A tn \in Tables :
                 /\ Len(brun.res[tn]) = Cardinality(RecordsOf(tn))
                 /\ {brun.res[tn][j] : j \in 1..Len(brun.res[tn])} = RecordsOf(tn)

\* C13 witness: batchGetKeys has returned from a call with more than 200 keys
\* of two tables, some of them asked for twice
C13_Witness ==
  /\ bcall.op = "getKeys"
  /\ brun.pc = "done"
  /\ InputCount > 2 * 100
  /\ Len(bcall.input["t2"]) > 0
  /\ Len(brun.initial) = 3
  /\ brun.sent > 3
  /\ Len(brun.res["t1"]) > 0

\* a call of batchWritePuts or batchWriteDeletes
WriteCall == bcall.op \in {"puts", "deletes"}

\* the entries of the input, as a set
InputEntries ==
  {[tn |-> "t1", i |-> bcall.input["t1"][j]] : j \in 1..Len(bcall.input["t1"])}
    \cup {[tn |-> "t2", i |-> bcall.input["t2"][j]] : j \in 1..Len(bcall.input["t2"])}

\* C14: batchWritePuts and batchWriteDeletes return only when the store has
\* accepted every entry of the input; the request that follows a response
\* with unprocessed entries holds exactly those entries; and as the store
\* accepts resubmitted entries in the end, the call returns.
C14_RetriesUntilAccepted ==
  /\ [](WriteCall =>
          /\ (brun.pc = "sent" /\ brun.retries > 0)
               => (brun.req = brun.unp /\ brun.unp # NoEntries)
          /\ brun.pc = "done"
               => /\ brun.unp = NoEntries
                  /\ brun.accepted = InputEntries
                  /\ brun.naccepted = InputCount)
  /\ ((WriteCall /\ brun.pc = "sent") ~> (brun.pc = "done"))

\* C14 witness: a batch write of more than one chunk has returned after
\* entries were resubmitted
C14_Witness ==
  /\ WriteCall
  /\ brun.pc = "done"
  /\ InputCount > 25
  /\ brun.sent > Len(brun.initial)
  /\ brun.accepted = InputEntries

\* the entries of a request, those of t1 first
EntriesOf(req) ==
  [j \in 1..Len(req["t1"]) |-> [tn |-> "t1", i |-> req["t1"][j]]]
    \o [j \in 1..Len(req["t2"]) |-> [tn |-> "t2", i |-> req["t2"][j]]]

\* C15: the first requests of batchWritePuts and batchWriteDeletes hold the
\* entries of the flattened input in order, 25 at most each, every entry in
\* one of them, ceil(n / 25) requests in all; the first request of a chunk
\* is sent when every entry of the chunks before it has been accepted.
C15_ChunksOfTwentyFive ==
  WriteCall =>
    /\ \A k \in 1..Len(brun.initial) :
         /\ Count(brun.initial[k]) <= 25
         /\ EntriesOf(brun.initial[k]) =
              SubSeq(Flatten(bcall.input), 25 * (k - 1) + 1,
                     IF 25 * k < InputCount THEN 25 * k ELSE InputCount)
    /\ (brun.pc = "sent" /\ brun.retries = 0) => brun.naccepted = 25 * brun.x
    /\ brun.pc = "done" => Len(brun.initial) = Ceil(InputCount, 25)

\* C15 witness: a batch write of 51 entries of two tables has returned after
\* three first requests
C15_Witness ==
  /\ WriteCall
  /\ brun.pc = "done"
  /\ InputCount = 2 * 25 + 1
  /\ Len(bcall.input["t2"]) > 0
  /\ Len(brun.initial) = 3

\* C16: batchWritePuts called a second time with the same items leaves the
\* tables as the first call left them, whatever the store leaves unprocessed.
C16_PutsIdempotent ==
  (bcall.op = "puts" /\ bcall.calls = 2 /\ brun.pc = "done") => btable = bfirst

\* C16 witness: the second call has returned, entries were resubmitted in
\* it, and the tables hold rows written by items of different chunks
C16_Witness ==
  /\ bcall.op = "puts" /\ bcall.calls = 2 /\ brun.pc = "done"
  /\ InputCount > 25
  /\ brun.sent > Len(brun.initial)
  /\ btable # {}
  /\ btable = bfirst

\* the foreign key of an item resolves to nothing: the item has none, or
\* the referenced table has no row under it
ResolvesToNothing(it) == ~Truthy(it.orgId) \/ it.orgId.s \notin Orgs

\* populate was called with the relation among the fields, on some items
PopulateCalled ==
  /\ pop.pc # "off"
  /\ pop.items # <<>>
  /\ \E j \in 1..Len(pop.fields) : pop.fields[j] = "org"

\* C17: populate returns without error; an item whose foreign key resolves
\* to nothing is left as it was, the other items are populated.
C17_PopulateSkipsUnresolved ==
  PopulateCalled =>
    /\ pop.pc = "done"
    /\ Len(pop.out) = Len(pop.items)
    /\ \A j \in 1..Len(pop.items) :
         IF ResolvesToNothing(pop.items[j])
           THEN pop.out[j] = pop.items[j]
           ELSE pop.out[j].org = Ref(pop.items[j].orgId.s)

\* C17, when every foreign key the items hold is the key of a row
C17_HoldsWhenRecordsExist ==
  ( /\ PopulateCalled
    /\ \A j \in 1..Len(pop.items) :
         Truthy(pop.items[j].orgId) => pop.items[j].orgId.s \in Orgs )
  => C17_PopulateSkipsUnresolved

\* C19: a record taken through parseDynamo and then toDynamo comes back as
\* it was: its plain and date attributes, and the join keys of its relation.
C19_RoundTrip ==
  rt.done => (rt.back.attrs = rt.rec.attrs /\ rt.back.rel = rt.rec.rel)

\* C19, for a relation whose join has one pair and whose join key is absent
\* or a value JavaScript takes as true
C19_HoldsForOneTruthyPair ==
  ( /\ rt.done
    /\ Len(rt.join) = 1
    /\ (rt.rec.rel["orgId"] = Undef \/ Truthy(rt.rec.rel["orgId"])) )
  => C19_RoundTrip

\* C18: once save() of a new entity has succeeded, the instance is no
\* longer new: its next save() is an update.
C18_SavedIsNotNew ==
  \A e \in Inst :
    (e \in Live /\ inst[e].req.issued /\ inst[e].result = "ok") => ~inst[e].isNew

\* the rows that hold e's unique-index value under a primary key other than
\* e's own
OtherRowsWithIndexValue(e) ==
  {it \in store :
     /\ it["email"] = inst[e].data["email"]
     /\ KeyOf(schema, it) # KeyOf(schema, inst[e].data)}

\* C20: the index query of the save() of an entity that is not new counts
\* exactly the rows with the same index value whose primary key differs from
\* the entity's own, in the hash key or in the range key.
C20_CountsOtherRows ==
  [][\A e \in Inst :
       ( /\ ~inst[e].isNew
         /\ inst[e].pc = "idle" /\ inst'[e].pc = "queried" )
       => inst'[e].count = Cardinality(OtherRowsWithIndexValue(e))]_vars

\* C20, for the schemas whose primary key is the hash key alone
C20_HoldsForHashKeyAlone ==
  [][\A e \in Inst :
       ( /\ ~schema.range
         /\ ~inst[e].isNew
         /\ inst[e].pc = "idle" /\ inst'[e].pc = "queried" )
       => inst'[e].count = Cardinality(OtherRowsWithIndexValue(e))]_vars

\* the second save() of an instance puts to the row its first save() wrote,
\* which no writer has touched since
SavesAgain(e) ==
  /\ ~inst[e].isNew
  /\ inst[e].pc = "queried" /\ inst'[e].pc = "idle"
  /\ inst[e].wrote # AbsentItem
  /\ inst[e].wrote \in store
  /\ inst'[e].req.issued
  /\ KeyOf(schema, inst'[e].req.item) = KeyOf(schema, inst[e].wrote)

\* C22: when a hydrated entity with a version attribute has been saved, a
\* second save() of the same instance, the row being as the first save()
\* left it, succeeds.
C22_SecondSaveSucceeds ==
  [][\A e \in Inst :
       (schema.verType # "none" /\ Truthy(inst[e].orig["ver"]) /\ SavesAgain(e))
       => inst'[e].result = "ok"]_vars

\* C22, for the schemas without a version attribute: the second save() of
\* the instance succeeds.
C22_HoldsWithoutVersion ==
  [][\A e \in Inst :
       (schema.verType = "none" /\ SavesAgain(e)) => inst'[e].result = "ok"]_vars

\* C22, for the first save() that wrote the version of the snapshot again:
\* the second save() succeeds.
C22_HoldsWhenVersionKept ==
  [][\A e \in Inst :
       ( /\ schema.verType # "none" /\ Truthy(inst[e].orig["ver"])
         /\ SavesAgain(e)
         /\ inst[e].wrote["ver"] = inst[e].orig["ver"] )
       => inst'[e].result = "ok"]_vars

\* the relation properties of the definition name in the document doc
RelationsOf(doc, name) == {p \in RelPropNames : doc[name].props[p].ref # "none"}

\* in the document doc, the definition the relation p of name refers to
\* holds a relation that refers back to name
RefersBack(doc, name, p) ==
  \E q \in RelPropNames : doc[doc[name].props[p].ref].props[q].ref = name

\* C21: in the document the validator of a definition E is compiled from, no
\* definition that a relation property of E refers to, with or without a
\* required marker, holds a relation property that refers back to E.
C21_NoBackReference ==
  \A name \in Defs :
    compiled[name].done =>
      \A p \in RelationsOf(compiled[name].doc, name) :
        compiled[name].doc[name].props[p].ref # name
          => ~RefersBack(compiled[name].doc, name, p)

\* C21, for the relation properties the caller wrote with a required marker
C21_HoldsForRequiredRelations ==
  \A name \in Defs :
    compiled[name].done =>
      \A p \in RelationsOf(compiled[name].doc, name) :
        sdoc0[name].props[p].required.set
          => ~RefersBack(compiled[name].doc, name, p)

\* C23: what is compiled for a definition R (its required list and its
\* properties) is what compiling R first, on the document as the caller
\* wrote it, gives: compiling other definitions before R changes nothing.
C23_CompileOrderIndependent ==
  \A name \in Defs :
    compiled[name].done
      => compiled[name].doc[name] = CompileDoc(sdoc0, name)[name]

\* C23, for the documents in which no other definition holds a relation with
\* a required marker
C23_HoldsWithoutRequiredRelations ==
  \A name \in Defs :
    ( /\ compiled[name].done
      /\ \A d \in Defs \ {name}, p \in RelPropNames : ~sdoc0[d].props[p].required.set )
    => compiled[name].doc[name] = CompileDoc(sdoc0, name)[name]

====
